---- MODULE Spec2Model ----
(***************************************************************************)
(* Model of video_converter_av1/converter.py: the batch conversion loop    *)
(* run_conversion and the helpers it calls.  A path is a record            *)
(* [dir, stem, ext]; a stem is a base name plus the numeric suffixes       *)
(* appended by generate_unique_path ("a" -> "a_1" -> "a_1_1").             *)
(***************************************************************************)
EXTENDS Integers, Sequences, FiniteSets, TLC

\* ---------------------------------------------------------------- bounds
MaxFiles == 2      \* largest number of *.mp4 files under the input root
MaxPre   == 1      \* largest numeric suffix of a pre-existing output a_k.mkv
MaxFree  == 2      \* largest free-space value reported by disk_usage
MaxSize  == 2      \* largest st_size of an input file

\* ----------------------------------------------------------------- paths
RootDir == <<>>
SubDir  == <<"sub">>

Stem(base, sfx) == [base |-> base, sfx |-> sfx]

MkPath(dir, stem, ext) == [dir |-> dir, stem |-> stem, ext |-> ext]

\* Stands for Python's None in output_path / an empty CSV cell.
NoPath == MkPath(RootDir, Stem("", <<>>), "")

\* The *.mp4 files that may lie beneath the input root.
InputUniverse ==
    { MkPath(RootDir, Stem("a", <<>>), ".mp4"),
      MkPath(RootDir, Stem("a", <<1>>), ".mp4"),
      MkPath(SubDir,  Stem("a", <<>>), ".mp4") }

\* Two names rglob("*.mp4") also matches: ".mp4", which pathlib reads as
\* the stem ".mp4" with no suffix, and ".mp4.mp4".
DotFiles ==
    { MkPath(RootDir, Stem(".mp4", <<>>), ""),
      MkPath(RootDir, Stem(".mp4", <<>>), ".mp4") }

\* The sets of *.mp4 files the input root may hold.
InputSets ==
    { S \in SUBSET InputUniverse : Cardinality(S) <= MaxFiles } \cup {DotFiles}

\* path matches "*.mp4": its name, stem and suffix together, ends in ".mp4".
IsMp4(p) ==
    \/ p.ext = ".mp4"
    \/ p.ext = "" /\ p.stem = Stem(".mp4", <<>>)

\* A file beneath the input root that rglob("*.mp4") must not pick up.
OtherFile == MkPath(RootDir, Stem("notes", <<>>), ".txt")

\* Files that may already exist beneath the output root before the run.
OutputUniverse ==
    { MkPath(RootDir, Stem("a", <<>>), ".mkv"),
      MkPath(SubDir,  Stem("a", <<>>), ".mkv") }
    \cup { MkPath(RootDir, Stem("a", <<k>>), ".mkv") : k \in 1..MaxPre }

\* Order of pathlib.Path comparison on the names above: parts are compared
\* left to right as strings,
\* ".mp4" < ".mp4.mp4" < "a.mp4" < "a_1.mp4" < "notes.txt" < "sub".
RECURSIVE SeqLess(_, _)
SeqLess(s, t) ==
    IF s = <<>> THEN t # <<>>
    ELSE IF t = <<>> THEN FALSE
    ELSE IF Head(s) # Head(t) THEN Head(s) < Head(t)
    ELSE SeqLess(Tail(s), Tail(t))

BaseRank(b) == IF b = ".mp4" THEN 0 ELSE IF b = "a" THEN 1 ELSE 2

PathLess(p, q) ==
    IF p.dir # q.dir THEN p.dir = RootDir
    ELSE IF p.stem.base # q.stem.base
         THEN BaseRank(p.stem.base) < BaseRank(q.stem.base)
         ELSE IF p.stem.sfx # q.stem.sfx
              THEN SeqLess(p.stem.sfx, q.stem.sfx)
              ELSE p.ext = "" /\ q.ext # ""

RECURSIVE SortPaths(_)
SortPaths(S) ==
    IF S = {} THEN <<>>
    ELSE LET m == CHOOSE x \in S : \A y \in S \ {x} : PathLess(x, y)
         IN  <<m>> \o SortPaths(S \ {m})

\* ------------------------------------------------------------- log rows
HeaderRow == [kind |-> "header", input |-> NoPath, output |-> NoPath,
              status |-> "status", message |-> "message"]

OldRow == [kind |-> "row", input |-> MkPath(RootDir, Stem("a", <<>>), ".mp4"),
           output |-> NoPath, status |-> "failed", message |-> "exit"]

NoEntry == [input_path |-> NoPath, output_path |-> NoPath,
            status |-> "none", message |-> ""]

\* ConversionLogEntry(...)
LogEntry(inp, out, status, msg) ==
    [input_path |-> inp, output_path |-> out, status |-> status, message |-> msg]

\* The CSV row append_log_entry writes for an entry.
RowOf(entry) ==
    [kind |-> "row", input |-> entry.input_path, output |-> entry.output_path,
     status |-> entry.status, message |-> entry.message]

\* ------------------------------------------------------------- summary
ZeroSummary == [total |-> 0, success |-> 0, failed |-> 0, skipped |-> 0]

\* register, had the final else branch been left out.
register_noelse(s, status) ==
    LET t == [s EXCEPT !.total = @ + 1]
    IN  IF status = "success" THEN [t EXCEPT !.success = @ + 1]
        ELSE IF status = "failed" THEN [t EXCEPT !.failed = @ + 1]
        ELSE t

\* ConversionSummary.register
register(s, status) ==
    LET t == [s EXCEPT !.total = @ + 1]
    IN  IF status = "success" THEN [t EXCEPT !.success = @ + 1]
        ELSE IF status = "failed" THEN [t EXCEPT !.failed = @ + 1]
        ELSE [t EXCEPT !.skipped = @ + 1]

\* ExitStatus, had skipped files counted against the run as well.
ExitStatus_skips(s) == IF s.failed = 0 /\ s.skipped = 0 THEN 0 ELSE 1

\* print_summary, had an empty run printed nothing.
print_summary_nonempty(s) == IF s.total = 0 THEN <<>> ELSE <<s>>

\* print_summary: the totals written to standard output.
print_summary(s) == <<s>>

\* return 0 if summary.failed == 0 else 1
ExitStatus(s) == IF s.failed = 0 THEN 0 ELSE 1

\* ------------------------------------------------------- path resolution
\* Candidate, had it used the file name instead of the relative path.
Candidate_flat(file_path) == MkPath(RootDir, file_path.stem, ".mkv")

\* (settings.output_dir / relative).with_suffix(".mkv")
Candidate(file_path) == MkPath(file_path.dir, file_path.stem, ".mkv")

\* parent / f"{stem}_{counter}{suffix}"
Suffixed(base_path, counter) ==
    MkPath(base_path.dir,
           Stem(base_path.stem.base, Append(base_path.stem.sfx, counter)),
           base_path.ext)

\* The while loop of generate_unique_path, entered with new_path existing.
RECURSIVE UniqueFrom(_, _, _)
UniqueFrom(base_path, counter, existing) ==
    LET new_path == Suffixed(base_path, counter)
    IN  IF new_path \in existing
        THEN UniqueFrom(base_path, counter + 1, existing)
        ELSE new_path

\* generate_unique_path, had the counter started at 2.
generate_unique_path_from2(base_path, existing) ==
    IF base_path \in existing THEN UniqueFrom(base_path, 2, existing)
    ELSE base_path

\* generate_unique_path: the first of base, base_1, base_2, ... that is free.
generate_unique_path(base_path, existing) ==
    IF base_path \in existing THEN UniqueFrom(base_path, 1, existing)
    ELSE base_path

\* ensure_output_directory, had the writability test been left out.
ensure_output_directory_nocheck(writable) == "ok"

\* ensure_output_directory after mkdir: PermissionError unless writable.
ensure_output_directory(writable) ==
    IF ~writable THEN "PermissionError" ELSE "ok"

\* is_nvenc_available: "av1_nvenc" in result.stdout, or FileNotFoundError
\* when the ffmpeg command is not found.
is_nvenc_available(tool) ==
    IF tool = "missing" THEN "FileNotFoundError"
    ELSE IF tool = "av1_nvenc" THEN "yes" ELSE "no"

\* select_encoder, had it fallen back to software without asking.
select_encoder_fallback(nvenc, allow_software) ==
    IF nvenc = "FileNotFoundError" THEN "FileNotFoundError"
    ELSE IF nvenc = "yes" THEN "av1_nvenc"
    ELSE "libaom-av1"

\* select_encoder: the codec name, or the exception it raises.
select_encoder(nvenc, allow_software) ==
    IF nvenc = "FileNotFoundError" THEN "FileNotFoundError"
    ELSE IF nvenc = "yes" THEN "av1_nvenc"
    ELSE IF allow_software THEN "libaom-av1"
    ELSE "RuntimeError"

\* build_output_path, had it returned the candidate when skip_existing is
\* off, whether or not a file is there.
build_output_path_overwrite(fp, skip_existing, existing) ==
    IF Candidate(fp) \in existing /\ skip_existing
    THEN [kind |-> "ConversionSkip", path |-> NoPath]
    ELSE [kind |-> "path", path |-> Candidate(fp)]

\* build_output_path, had it renamed whatever skip_existing says.
build_output_path_rename(fp, skip_existing, existing) ==
    [kind |-> "path", path |-> generate_unique_path(Candidate(fp), existing)]

\* build_output_path after candidate.parent.mkdir: the path to write, or
\* ConversionSkip.
build_output_path(fp, skip_existing, existing) ==
    LET candidate == Candidate(fp)
    IN  IF candidate \in existing
        THEN IF skip_existing
             THEN [kind |-> "ConversionSkip", path |-> NoPath]
             ELSE [kind |-> "path",
                   path |-> generate_unique_path(candidate, existing)]
        ELSE [kind |-> "path", path |-> candidate]

\* after_encoder, had the exit code not been checked before the unlink.
after_encoder_nocheck(code, delete_original) ==
    IF delete_original THEN "unlink"
    ELSE IF code # 0 THEN "CalledProcessError"
    ELSE "return"

\* convert_single_file after subprocess.run(command, check=True): a non-zero
\* exit raises CalledProcessError, else the source is unlinked if asked.
after_encoder(code, delete_original) ==
    IF code # 0 THEN "CalledProcessError"
    ELSE IF delete_original THEN "unlink"
    ELSE "return"

\* build_ffmpeg_command, had the hardware codec been written into it.
build_ffmpeg_command_nvenc(input_path, output_path, enc, quality) ==
    [input |-> input_path, encoder |-> "av1_nvenc", overwrite |-> TRUE,
     mode |-> "-cq", quality |-> quality, output |-> output_path]

\* build_ffmpeg_command: the parts of the argument list that vary ("-y" is
\* always there, the output path comes last).
build_ffmpeg_command(input_path, output_path, enc, quality) ==
    [input |-> input_path, encoder |-> enc, overwrite |-> TRUE,
     mode |-> IF enc = "av1_nvenc" THEN "-cq" ELSE "-crf",
     quality |-> quality, output |-> output_path]

\* validate_quality, had the upper bound been exclusive.
validate_quality_strict(value) ==
    IF ~(0 <= value /\ value < 51) THEN "ValidationError" ELSE "ok"

\* if not 0 <= value <= 51: raise ValueError (pydantic reports it as a
\* ValidationError of the model)
validate_quality(value) ==
    IF ~(0 <= value /\ value <= 51) THEN "ValidationError" ELSE "ok"

\* append_log_entry, had it written the header on every call.
write_header_always(log_exists) == TRUE

\* write_header = not log_path.exists()
write_header(log_exists) == ~log_exists

\* ----------------------------------------------------------------- state
VARIABLES
    settings,    \* ConverterSettings: quality, skip_existing, delete_original,
                 \* allow_software (before construction: the values asked for)
    run,         \* 1 in the first call of run_conversion, 2 in the second
    ffmpeg,      \* the external tool: lists av1_nvenc, lists only others, or is missing
    initial,     \* the file system as it was when run_conversion was called
    inputExists, \* settings.input_dir exists
    outputWritable, \* os.access(settings.output_dir, os.W_OK)
    srcFiles,    \* files existing beneath the input root
    outDirs,     \* directories existing at or beneath the output root
    outFiles,    \* files existing beneath the output root (log file apart)
    logExists,   \* convert_log.csv exists
    logFile,     \* rows of convert_log.csv
    logStart,    \* number of rows convert_log.csv had when the run started
    files,       \* run_conversion: files
    encoder,     \* run_conversion: encoder
    probes,      \* number of calls of is_nvenc_available
    idx,         \* position of file_path in files (0 before the loop)
    output_path, \* convert_single_file: output_path
    usage,       \* ensure_disk_capacity: [free, required] after disk_usage
    entry,       \* run_conversion: entry
    summary,     \* run_conversion: summary
    calls,       \* encoder commands run so far, in order
    returncode,  \* exit code of the encoder for file_path (-1: not run)
    printed,     \* what print_summary has written to standard output
    exitCode,    \* return value of run_conversion (-1: none)
    raised,      \* exception that left run_conversion ("": none)
    pc           \* next step of run_conversion

vars == <<settings, run, ffmpeg, initial, returncode, outputWritable, inputExists,
          srcFiles, outDirs, outFiles, logExists, logFile, logStart, files, encoder, probes, idx, output_path, usage,
          entry, summary, calls, printed, exitCode, raised, pc>>

NoUsage == [free |-> -1, required |-> -1]

\* quality: int = 28
DefaultQuality == 28

\* the largest quality validate_quality lets through
MaxQuality == 51

\* What is remembered of the call of run_conversion before this one.
NoRun == [pc |-> "none", files |-> <<>>, idx |-> 0, raised |-> ""]

SettingsSet == [quality : {DefaultQuality}, skip_existing : BOOLEAN,
                delete_original : BOOLEAN, allow_software : BOOLEAN]

DirsOf(S) == { p.dir : p \in S } \cup (IF S = {} THEN {} ELSE {RootDir})

Init ==
    /\ settings \in SettingsSet
    /\ run = 1
    /\ ffmpeg \in {"av1_nvenc", "other", "missing"}
    /\ returncode = -1
    /\ inputExists \in BOOLEAN
    /\ outputWritable \in BOOLEAN
    /\ \E S \in InputSets :
          /\ inputExists = FALSE => S = {}
          /\ srcFiles = IF inputExists THEN S \cup {OtherFile} ELSE {}
    /\ outFiles \in SUBSET OutputUniverse
    /\ logExists \in BOOLEAN
    /\ outDirs = DirsOf(outFiles) \cup (IF logExists THEN {RootDir} ELSE {})
    /\ logFile = IF logExists THEN <<HeaderRow, OldRow>> ELSE <<>>
    /\ logStart = Len(logFile)
    /\ initial = [srcFiles |-> srcFiles, outFiles |-> outFiles,
                  logExists |-> logExists, logFile |-> logFile,
                  previous |-> NoRun]
    /\ files = <<>>
    /\ encoder = "unset"
    /\ probes = 0
    /\ idx = 0
    /\ output_path = NoPath
    /\ usage = NoUsage
    /\ entry = NoEntry
    /\ summary = ZeroSummary
    /\ calls = <<>>
    /\ printed = <<>>
    /\ exitCode = -1
    /\ raised = ""
    /\ pc = "collect"

\* ------------------------------------------------------------ pre-batch
\* A fatal error: the exception leaves run_conversion.
Abort(exc) ==
    /\ raised' = exc
    /\ pc' = "aborted"

\* files = collect_target_files(settings.input_dir)
CollectTargetFiles ==
    /\ pc = "collect"
    /\ IF ~inputExists
       THEN /\ Abort("FileNotFoundError")
            /\ UNCHANGED files
       ELSE /\ files' = SortPaths({ p \in srcFiles : IsMp4(p) })
            /\ pc' = "ensure_out"
            /\ UNCHANGED raised
    /\ UNCHANGED <<settings, run, ffmpeg, initial, returncode, outputWritable,
                   inputExists, srcFiles, outDirs, outFiles,
                   logExists, logFile, logStart, encoder, probes, idx,
                   output_path, usage, entry, summary, calls, printed,
                   exitCode>>

\* ensure_output_directory(settings.output_dir)
EnsureOutputDirectory ==
    /\ pc = "ensure_out"
    /\ \E mkdir_ok \in BOOLEAN :
          /\ (RootDir \in outDirs) => mkdir_ok
          /\ IF ~mkdir_ok
             THEN /\ Abort("OSError")
                  /\ UNCHANGED outDirs
             ELSE /\ outDirs' = outDirs \cup {RootDir}
                  /\ IF ensure_output_directory(outputWritable) = "ok"
                     THEN pc' = "select" /\ UNCHANGED raised
                     ELSE Abort(ensure_output_directory(outputWritable))
    /\ UNCHANGED <<settings, run, ffmpeg, initial, returncode, outputWritable,
                   inputExists, srcFiles, outFiles, logExists,
                   logFile, logStart, files, encoder, probes, idx,
                   output_path, usage, entry, summary, calls, printed,
                   exitCode>>

\* encoder = select_encoder(settings.allow_software); log_path, summary and
\* the progress bar are set up on the way to the loop.
SelectEncoder ==
    /\ pc = "select"
    /\ probes' = probes + 1
    /\ LET enc == select_encoder(is_nvenc_available(ffmpeg),
                                 settings.allow_software)
       IN  IF enc \in {"FileNotFoundError", "RuntimeError"}
           THEN /\ Abort(enc)
                /\ UNCHANGED encoder
           ELSE /\ encoder' = enc
                /\ pc' = "loop"
                /\ UNCHANGED raised
    /\ UNCHANGED <<settings, run, ffmpeg, initial, returncode, outputWritable,
                   inputExists, srcFiles, outDirs, outFiles,
                   logExists, logFile, logStart, files, idx, output_path,
                   usage, entry, summary, calls, printed, exitCode>>

\* ---------------------------------------------------------- batch loop
file_path == files[idx]

\* except ConversionSkip: the entry of a skipped file.
Skip(msg) ==
    /\ entry' = LogEntry(file_path, NoPath, "skipped", msg)
    /\ output_path' = NoPath
    /\ usage' = NoUsage
    /\ pc' = "append"

\* Fail, had the handler left the loop instead of going on to the log.
Fail_breaks(msg) ==
    /\ entry' = LogEntry(file_path, NoPath, "failed", msg)
    /\ output_path' = NoPath
    /\ usage' = NoUsage
    /\ pc' = "summary"

\* except Exception: the entry of a failed file.
Fail(msg) ==
    /\ entry' = LogEntry(file_path, NoPath, "failed", msg)
    /\ output_path' = NoPath
    /\ usage' = NoUsage
    /\ pc' = "append"

\* convert_single_file, had it run the encoder a second time for its file.
Succeed_retry ==
    IF \A c \in 1..Len(calls) : calls[c].input # file_path
    THEN /\ pc' = "ffmpeg"
         /\ UNCHANGED <<entry, output_path, usage>>
    ELSE /\ entry' = LogEntry(file_path, output_path, "success", "")
         /\ output_path' = NoPath
         /\ usage' = NoUsage
         /\ pc' = "append"

\* convert_single_file returns its entry.
Succeed ==
    /\ entry' = LogEntry(file_path, output_path, "success", "")
    /\ output_path' = NoPath
    /\ usage' = NoUsage
    /\ pc' = "append"

\* for file_path in progress_bar: the next file, or the end of the loop.
LoopNext ==
    /\ pc = "loop"
    /\ IF idx < Len(files)
       THEN idx' = idx + 1 /\ pc' = "resolve"
       ELSE idx' = idx /\ pc' = "summary"
    /\ returncode' = -1
    /\ UNCHANGED <<settings, run, ffmpeg, initial, outputWritable, inputExists, srcFiles, outDirs, outFiles,
                   logExists, logFile, logStart, files, encoder, probes,
                   output_path, usage, entry, summary, calls, printed,
                   exitCode, raised>>

\* output_path = build_output_path(file_path, settings)
BuildOutputPath ==
    /\ pc = "resolve"
    /\ LET candidate == Candidate(file_path)
       IN  \E mkdir_ok \in BOOLEAN :
             /\ (candidate.dir \in outDirs) => mkdir_ok
             /\ IF ~mkdir_ok
                THEN Fail("io") /\ UNCHANGED outDirs
                ELSE LET r == build_output_path(file_path,
                                                settings.skip_existing, outFiles)
                     IN  /\ outDirs' = outDirs \cup {RootDir, candidate.dir}
                         /\ IF r.kind = "ConversionSkip"
                            THEN Skip("skip")
                            ELSE /\ output_path' = r.path
                                 /\ pc' = "usage"
                                 /\ UNCHANGED <<entry, usage>>
    /\ UNCHANGED <<settings, run, ffmpeg, initial, returncode, outputWritable,
                   inputExists, srcFiles, outFiles, logExists,
                   logFile, logStart, files, encoder, probes, idx, summary,
                   calls, printed, exitCode, raised>>

\* ensure_disk_capacity, first half: file_path.stat().st_size and
\* shutil.disk_usage(target_dir), either of which may raise OSError.
DiskUsage ==
    /\ pc = "usage"
    /\ \/ Fail("io")
       \/ \E free \in 0..MaxFree, size \in 1..MaxSize :
             /\ usage' = [free |-> free, required |-> size]
             /\ pc' = "capacity"
             /\ UNCHANGED <<entry, output_path>>
    /\ UNCHANGED <<settings, run, ffmpeg, initial, returncode, outputWritable,
                   inputExists, srcFiles, outDirs, outFiles,
                   logExists, logFile, logStart, files, encoder, probes, idx,
                   summary, calls, printed, exitCode, raised>>

\* ensure_disk_capacity, had it asked for more space than the input takes.
InsufficientSpace_le(u) == u.free <= u.required

\* if usage.free < required_bytes: raise RuntimeError
InsufficientSpace(u) == u.free < u.required

\* ensure_disk_capacity, second half: the comparison.
CheckCapacity ==
    /\ pc = "capacity"
    /\ IF InsufficientSpace(usage)
       THEN Fail("disk")
       ELSE /\ usage' = NoUsage
            /\ pc' = "ffmpeg"
            /\ UNCHANGED <<entry, output_path>>
    /\ UNCHANGED <<settings, run, ffmpeg, initial, returncode, outputWritable,
                   inputExists, srcFiles, outDirs, outFiles,
                   logExists, logFile, logStart, files, encoder, probes, idx,
                   summary, calls, printed, exitCode, raised>>

\* subprocess.run(command, check=True): the external tool exits with zero
\* or not, and has or has not written its output file.
RunFfmpeg ==
    /\ pc = "ffmpeg"
    /\ calls' = Append(calls, build_ffmpeg_command(file_path, output_path,
                                                    encoder, settings.quality))
    /\ \E code \in 0..1, written \in BOOLEAN :
          LET step == after_encoder(code, settings.delete_original)
          IN  /\ returncode' = code
              /\ outFiles' = IF written THEN outFiles \cup {output_path}
                                         ELSE outFiles
              /\ IF step = "CalledProcessError" THEN Fail("exit")
                 ELSE IF step = "unlink"
                      THEN /\ pc' = "unlink"
                           /\ UNCHANGED <<entry, output_path, usage>>
                      ELSE Succeed
    /\ UNCHANGED <<settings, run, ffmpeg, initial, outputWritable, inputExists, srcFiles, outDirs, logExists,
                   logFile, logStart, files, encoder, probes, idx, summary,
                   printed, exitCode, raised>>

\* file_path.unlink(missing_ok=True), which may raise OSError
DeleteOriginal ==
    /\ pc = "unlink"
    /\ \/ srcFiles' = srcFiles \ {file_path} /\ Succeed
       \/ UNCHANGED srcFiles /\ Fail("io")
    /\ UNCHANGED <<settings, run, ffmpeg, initial, returncode, outputWritable,
                   inputExists, outDirs, outFiles, logExists,
                   logFile, logStart, files, encoder, probes, idx, summary,
                   calls, printed, exitCode, raised>>

\* append_log_entry(log_path, entry); an OSError leaves run_conversion. It
\* is raised by mkdir or open, with nothing changed, or by the write that
\* follows open("a"), which has created the file if it was not there.
AppendLogEntry ==
    /\ pc = "append"
    /\ \/ /\ Abort("OSError")
          /\ UNCHANGED <<outDirs, logExists, logFile>>
       \/ /\ Abort("OSError")
          /\ outDirs' = outDirs \cup {RootDir}
          /\ logExists' = TRUE
          /\ UNCHANGED logFile
       \/ /\ outDirs' = outDirs \cup {RootDir}
          /\ logExists' = TRUE
          /\ logFile' = logFile
                         \o (IF write_header(logExists) THEN <<HeaderRow>>
                                                        ELSE <<>>)
                         \o <<RowOf(entry)>>
          /\ pc' = "register"
          /\ UNCHANGED raised
    /\ UNCHANGED <<settings, run, ffmpeg, initial, returncode, outputWritable,
                   inputExists, srcFiles, outFiles, logStart, files,
                   encoder, probes, idx, output_path, usage, entry, summary,
                   calls, printed, exitCode>>

\* summary.register(entry.status)
Register ==
    /\ pc = "register"
    /\ summary' = register(summary, entry.status)
    /\ pc' = "loop"
    /\ UNCHANGED <<settings, run, ffmpeg, initial, returncode, outputWritable,
                   inputExists, srcFiles, outDirs, outFiles,
                   logExists, logFile, logStart, files, encoder, probes, idx,
                   output_path, usage, entry, calls, printed, exitCode, raised>>

\* progress_bar.close(); print_summary(summary, log_path); return
PrintSummary ==
    /\ pc = "summary"
    /\ printed' = print_summary(summary)
    /\ exitCode' = ExitStatus(summary)
    /\ pc' = "done"
    /\ UNCHANGED <<settings, run, ffmpeg, initial, returncode, outputWritable,
                   inputExists, srcFiles, outDirs, outFiles,
                   logExists, logFile, logStart, files, encoder, probes, idx,
                   output_path, usage, entry, summary, calls, raised>>

\* ConverterSettings(...) in parse_arguments: the model is built, or the
\* validation error leaves main before run_conversion is called.
ConstructSettings ==
    /\ pc = "construct"
    /\ IF validate_quality(settings.quality) = "ok"
       THEN pc' = "collect" /\ UNCHANGED raised
       ELSE Abort(validate_quality(settings.quality))
    /\ UNCHANGED <<settings, run, ffmpeg, initial, returncode, outputWritable,
                   inputExists, srcFiles, outDirs, outFiles, logExists,
                   logFile, logStart, files, encoder, probes, idx,
                   output_path, usage, entry, summary, calls, printed,
                   exitCode>>

\* main is called a second time with the same arguments, on the file system
\* the first call has left.
Rerun ==
    /\ run = 1
    /\ pc \in {"done", "aborted"}
    /\ run' = 2
    /\ initial' = [srcFiles |-> srcFiles, outFiles |-> outFiles,
                   logExists |-> logExists, logFile |-> logFile,
                   previous |-> [pc |-> pc, files |-> files, idx |-> idx,
                                 raised |-> raised]]
    /\ logStart' = Len(logFile)
    /\ files' = <<>>
    /\ encoder' = "unset"
    /\ probes' = 0
    /\ idx' = 0
    /\ output_path' = NoPath
    /\ usage' = NoUsage
    /\ entry' = NoEntry
    /\ summary' = ZeroSummary
    /\ calls' = <<>>
    /\ returncode' = -1
    /\ printed' = <<>>
    /\ exitCode' = -1
    /\ raised' = ""
    /\ pc' = "collect"
    /\ UNCHANGED <<settings, ffmpeg, outputWritable, inputExists, srcFiles,
                   outDirs, outFiles, logExists, logFile>>

Next ==
    \/ CollectTargetFiles
    \/ EnsureOutputDirectory
    \/ SelectEncoder
    \/ LoopNext
    \/ BuildOutputPath
    \/ DiskUsage
    \/ CheckCapacity
    \/ RunFfmpeg
    \/ DeleteOriginal
    \/ AppendLogEntry
    \/ Register
    \/ PrintSummary

Spec == Init /\ [][Next]_vars

\* run_conversion is one thread that runs each statement to completion, the
\* synchronous subprocess.run included (the external tool is taken to
\* return): a step that is enabled is eventually taken.
FairSpec == Spec /\ WF_vars(Next)

\* Two calls of main in a row, on an empty output root, with ffmpeg and its
\* av1_nvenc encoder installed.
InitRerun ==
    /\ Init
    /\ inputExists /\ outputWritable
    /\ ffmpeg = "av1_nvenc"
    /\ ~settings.allow_software
    /\ outFiles = {}
    /\ ~logExists

NextRerun == Next \/ Rerun

RerunSpec == InitRerun /\ [][NextRerun]_vars

\* One call of main for every quality that can be asked for on the command
\* line, from QualityMargin below the accepted range to QualityMargin above.
QualityMargin == 2

InitQuality ==
    /\ settings \in [quality : (0 - QualityMargin)..(MaxQuality + QualityMargin),
                      skip_existing : {TRUE}, delete_original : BOOLEAN,
                      allow_software : {FALSE}]
    /\ run = 1
    /\ ffmpeg = "av1_nvenc"
    /\ returncode = -1
    /\ inputExists = TRUE
    /\ outputWritable = TRUE
    /\ srcFiles = {MkPath(RootDir, Stem("a", <<>>), ".mp4"), OtherFile}
    /\ outFiles = {}
    /\ logExists = FALSE
    /\ outDirs = {}
    /\ logFile = <<>>
    /\ logStart = 0
    /\ initial = [srcFiles |-> srcFiles, outFiles |-> outFiles,
                  logExists |-> logExists, logFile |-> logFile,
                  previous |-> NoRun]
    /\ files = <<>>
    /\ encoder = "unset"
    /\ probes = 0
    /\ idx = 0
    /\ output_path = NoPath
    /\ usage = NoUsage
    /\ entry = NoEntry
    /\ summary = ZeroSummary
    /\ calls = <<>>
    /\ printed = <<>>
    /\ exitCode = -1
    /\ raised = ""
    /\ pc = "construct"

NextQuality == ConstructSettings \/ Next

QualitySpec == InitQuality /\ [][NextQuality]_vars

TypeOK ==
    /\ settings.quality \in Int
    /\ run \in 1..2
    /\ pc \in {"construct", "collect", "ensure_out", "select", "loop", "resolve", "usage",
               "capacity", "ffmpeg", "unlink", "append", "register",
               "summary", "done", "aborted"}
    /\ idx \in 0..Len(files)
    /\ exitCode \in -1..1

\* ------------------------------------------------------------ properties
\* The rows this run has appended to convert_log.csv, header apart.
IsRow(r) == r.kind = "row"

RunRows == SelectSeq(SubSeq(logFile, logStart + 1, Len(logFile)), IsRow)

PerFileSteps == {"resolve", "usage", "capacity", "ffmpeg", "unlink"}

Terminated == pc \in {"done", "aborted"}

CountStatus(st) == Cardinality({ k \in 1..Len(RunRows) : RunRows[k].status = st })

\* Processing of the i-th file raised something other than ConversionSkip.
FailedAt(i) ==
    \/ i <= Len(RunRows) /\ RunRows[i].status = "failed"
    \/ i = idx /\ entry.status = "failed" /\ entry.input_path = files[i]

Logged(i) == i <= Len(RunRows) /\ RunRows[i].input = files[i]

\* C1 as stated: once run_conversion has ended, every file whose processing
\* raised is logged as failed and every file after it has its own log row.
C1_Original ==
    \A i \in 1..idx :
        (Terminated /\ FailedAt(i)) =>
            /\ Logged(i) /\ RunRows[i].status = "failed"
            /\ \A j \in (i + 1)..Len(files) : Logged(j)

C1_Step ==
    /\ pc \in PerFileSteps =>
          /\ pc' \in PerFileSteps \cup {"append"}
          /\ raised' = "" /\ idx' = idx
    /\ (pc = "capacity" /\ usage.free < usage.required) =>
          /\ pc' = "append"
          /\ entry' = LogEntry(files[idx], NoPath, "failed", "disk")
    /\ (pc = "ffmpeg" /\ returncode' # 0) =>
          /\ pc' = "append"
          /\ entry' = LogEntry(files[idx], NoPath, "failed", "exit")
    /\ (pc = "append" /\ pc' = "register") =>
          logFile'[Len(logFile')] = RowOf(entry)
    /\ (pc' = "aborted" /\ idx >= 1) => (pc = "append" /\ raised' = "OSError")

C1_Inv ==
    /\ pc \in {"loop", "summary", "done"} =>
          /\ Len(RunRows) = idx
          /\ \A i \in 1..idx : Logged(i)
    /\ pc \in {"summary", "done"} =>
          /\ idx = Len(files)
          /\ raised = ""
          /\ \A i \in 1..Len(files) : Logged(i)
    /\ pc \in {"append", "register"} /\ entry.status = "failed" =>
          entry.input_path = files[idx]
    /\ \A i \in 1..Len(RunRows) :
          RunRows[i].status = "failed" =>
              RunRows[i].message \in {"io", "disk", "exit"}

\* C1, amended: a per-file exception other than the skip signal makes the
\* entry of that file Failed and never ends the loop; the file and every
\* file after it then get their log rows, unless append_log_entry itself
\* raises, which ends the run.
C1_FailureIsolated ==
    /\ [][C1_Step]_vars
    /\ [](C1_Inv)

C1_Witness ==
    /\ pc = "done" /\ Len(files) = 2 /\ Len(RunRows) = 2
    /\ RunRows[1].status = "failed"
    /\ RunRows[2].status = "success"

\* C2: when run_conversion returns, the exit status is 1 exactly when some
\* row of this run is failed, and 0 otherwise, whatever the number of
\* skipped rows.
C2_ExitStatus ==
    pc = "done" =>
        /\ exitCode = 1 <=> CountStatus("failed") >= 1
        /\ exitCode = 0 <=> CountStatus("failed") = 0

C2_Witness ==
    /\ pc = "done" /\ exitCode = 0
    /\ CountStatus("skipped") >= 1 /\ CountStatus("success") >= 1

\* C3: between two iterations and at the end of the run the rows appended
\* by this run, summary.total and the sum of the three counters agree, each
\* counter equals the number of rows of its status, and the k-th row is the
\* row of the k-th file in sorted order.
C3_Lockstep ==
    /\ pc \in {"loop", "summary", "done", "aborted"} =>
          /\ Len(RunRows) = summary.total
          /\ summary.total = summary.success + summary.failed + summary.skipped
          /\ summary.success = CountStatus("success")
          /\ summary.failed = CountStatus("failed")
          /\ summary.skipped = CountStatus("skipped")
    /\ pc \in {"loop", "summary", "done"} => summary.total = idx
    /\ pc = "done" => summary.total = Cardinality(initial.srcFiles \ {OtherFile})
    /\ \A k \in 1..Len(RunRows) :
          /\ RunRows[k].input = files[k]
          /\ RunRows[k].status \in {"success", "failed", "skipped"}
          /\ \A j \in 1..(k - 1) : PathLess(RunRows[j].input, RunRows[k].input)

C3_Witness ==
    /\ pc = "loop" /\ idx = 1 /\ Len(files) = 2
    /\ summary.total = 1 /\ summary.skipped = 1

\* Nothing beneath the input or output root, nor the log, has changed.
Untouched ==
    /\ srcFiles = initial.srcFiles
    /\ outFiles = initial.outFiles
    /\ logExists = initial.logExists
    /\ logFile = initial.logFile

PreBatch == pc \in {"collect", "ensure_out", "select"}

NoEncoder == ffmpeg = "other" /\ ~settings.allow_software

\* C4: with the hardware encoder unavailable and allow_software false the
\* run never reaches the loop: it raises, no file is processed, no encoder
\* command is run, no source is deleted and the log is neither created nor
\* written.
C4_NoEncoderFatal ==
    NoEncoder =>
        /\ PreBatch \/ pc = "aborted"
        /\ pc = "aborted" => raised # ""
        /\ idx = 0 /\ calls = <<>> /\ Untouched
        /\ encoder = "unset" /\ printed = <<>> /\ exitCode = -1
        /\ probes = 1 => (pc = "aborted" /\ raised = "RuntimeError")

C4_Witness ==
    /\ NoEncoder /\ pc = "aborted" /\ raised = "RuntimeError"
    /\ Len(files) >= 1 /\ ~logExists

\* C5: with skip_existing on, a file whose candidate output exists when it
\* is resolved becomes exactly a skipped entry in that one step: no
\* capacity check, no encoder command, no deletion of its source even with
\* delete_original on, and skipped rows alone leave the exit status 0.
C5_Step ==
    (pc = "resolve" /\ settings.skip_existing
       /\ MkPath(files[idx].dir, files[idx].stem, ".mkv") \in outFiles) =>
        /\ pc' = "append"
        /\ entry' = LogEntry(files[idx], NoPath, "skipped", "skip")
        /\ calls' = calls /\ srcFiles' = srcFiles /\ outFiles' = outFiles
        /\ usage' = NoUsage /\ returncode' = -1

C5_Inv ==
    /\ \A k \in 1..Len(RunRows) :
          RunRows[k].status = "skipped" =>
              /\ settings.skip_existing
              /\ files[k] \in srcFiles
              /\ \A c \in 1..Len(calls) : calls[c].input # files[k]
    /\ (pc \in {"usage", "capacity", "ffmpeg"} /\ settings.skip_existing) =>
          MkPath(files[idx].dir, files[idx].stem, ".mkv") \notin outFiles
    /\ (pc = "done" /\ CountStatus("failed") = 0) => exitCode = 0

C5_SkipExisting == [][C5_Step]_vars /\ [](C5_Inv)

C5_Witness ==
    /\ pc = "done" /\ settings.delete_original /\ exitCode = 0
    /\ \E k \in 1..Len(RunRows) : RunRows[k].status = "skipped"

\* stem_k: same directory, same extension, "_k" appended to the stem.
StemK(c, k) ==
    [dir |-> c.dir, ext |-> c.ext,
     stem |-> [base |-> c.stem.base, sfx |-> c.stem.sfx \o <<k>>]]

\* C6: with skip_existing off, a file whose candidate output exists is
\* resolved to stem_k for the smallest k >= 1 that is free, a path no
\* existing file has; the file goes on through the pipeline, the encoder is
\* run with that path and a success entry carries it.
C6_Step ==
    /\ (pc = "resolve" /\ ~settings.skip_existing
          /\ MkPath(files[idx].dir, files[idx].stem, ".mkv") \in outFiles) =>
          LET c == MkPath(files[idx].dir, files[idx].stem, ".mkv")
          IN  /\ pc' = "usage"
              /\ output_path' \notin outFiles
              /\ \E k \in 1..(Cardinality(outFiles) + 1) :
                    /\ output_path' = StemK(c, k)
                    /\ \A j \in 1..(k - 1) : StemK(c, j) \in outFiles
    /\ pc \in {"usage", "capacity", "ffmpeg", "unlink"} =>
          output_path' \in {output_path, NoPath}
    /\ pc = "ffmpeg" =>
          /\ calls'[Len(calls')].output = output_path
          /\ calls'[Len(calls')].input = files[idx]
          /\ output_path \notin outFiles
    /\ (pc \in {"ffmpeg", "unlink"} /\ entry'.status = "success"
          /\ pc' = "append") =>
          entry' = LogEntry(files[idx], output_path, "success", "")

C6_UniquePath == [][C6_Step]_vars

C6_Witness ==
    /\ pc = "append" /\ ~settings.skip_existing
    /\ entry.status = "success"
    /\ entry.output_path = StemK(MkPath(RootDir, Stem("a", <<>>), ".mkv"), 2)

\* C7: a success entry with delete_original on means the source is gone, a
\* failed entry means the source is still there, and a source is removed
\* only by the unlink that follows an encoder exit code of zero for it.
C7_Step ==
    srcFiles' # srcFiles =>
        /\ pc = "unlink" /\ settings.delete_original
        /\ returncode = 0
        /\ calls[Len(calls)].input = files[idx]
        /\ srcFiles' = srcFiles \ {files[idx]}

C7_Inv ==
    /\ \A k \in 1..Len(RunRows) :
          /\ (RunRows[k].status = "success" /\ settings.delete_original) =>
                files[k] \notin srcFiles
          /\ RunRows[k].status = "failed" => files[k] \in srcFiles
    /\ pc = "append" =>
          /\ (entry.status = "success" /\ settings.delete_original) =>
                files[idx] \notin srcFiles
          /\ entry.status = "failed" => files[idx] \in srcFiles
          /\ entry.status = "success" => returncode = 0

C7_DeleteOriginal == [][C7_Step]_vars /\ [](C7_Inv)

C7_Witness ==
    /\ pc = "done" /\ settings.delete_original /\ Len(RunRows) = 2
    /\ RunRows[1].status = "success" /\ files[1] \notin srcFiles
    /\ RunRows[2].status = "failed" /\ files[2] \in srcFiles

\* The *.mp4 files beneath the input root when the run started.
InputFiles == initial.srcFiles \ {OtherFile}

\* Messages of the entries made so far, the one not yet logged included.
Messages ==
    { RunRows[k].message : k \in 1..Len(RunRows) } \cup {entry.message}

\* No pre-existing output, no two inputs with the same candidate output, an
\* encoder was selected, no capacity shortfall and no non-zero exit of the
\* external tool.
C8_Given ==
    /\ initial.outFiles = {}
    /\ \A p, q \in InputFiles :
          p # q => MkPath(p.dir, p.stem, ".mkv") # MkPath(q.dir, q.stem, ".mkv")
    /\ encoder # "unset"
    /\ Messages \cap {"disk", "exit"} = {}

C8_Outcome ==
    LET N == Cardinality(InputFiles)
    IN  /\ pc = "done"
        /\ Len(RunRows) = N
        /\ \A k \in 1..N : RunRows[k].status = "success"
        /\ summary = [total |-> N, success |-> N, failed |-> 0, skipped |-> 0]
        /\ exitCode = 0

ConfigError == ~inputExists \/ ~outputWritable

C9_Step ==
    /\ (pc = "collect" /\ ~inputExists) =>
          (pc' = "aborted" /\ raised' = "FileNotFoundError")
    /\ (pc = "ensure_out" /\ ~outputWritable) =>
          (pc' = "aborted" /\ raised' \in {"OSError", "PermissionError"})

C9_Inv ==
    ConfigError =>
        /\ pc \in {"collect", "ensure_out", "aborted"}
        /\ probes = 0 /\ encoder = "unset"
        /\ idx = 0 /\ calls = <<>> /\ Untouched
        /\ printed = <<>> /\ exitCode = -1
        /\ pc = "aborted" =>
              raised \in {"FileNotFoundError", "OSError", "PermissionError"}

C9_ConfigFatal == [][C9_Step]_vars /\ [](C9_Inv)

C9_Witness ==
    /\ inputExists /\ ~outputWritable /\ InputFiles # {}
    /\ pc = "aborted" /\ raised = "PermissionError"

\* The loop of run_conversion has been reached.
LoopEntered == encoder # "unset"

Headers == { k \in 1..Len(logFile) : logFile[k] = HeaderRow }

\* Some call of append_log_entry, in this run or the one before, has raised.
AppendRaised ==
    \/ raised = "OSError" /\ idx >= 1
    \/ initial.previous.raised = "OSError" /\ initial.previous.idx >= 1

C11_Step ==
    /\ Len(logFile') >= Len(logFile)
    /\ SubSeq(logFile', 1, Len(logFile)) = logFile
    /\ (pc = "append" /\ pc' = "register") =>
          /\ Len(logFile') - Len(logFile) = (IF logExists THEN 1 ELSE 2)
          /\ logFile'[Len(logFile')] = RowOf(entry)
    /\ pc # "append" => logFile' = logFile

C11_Inv == (logExists /\ ~AppendRaised) => Headers = {1}

C12_Step ==
    /\ probes' \in {probes, probes + 1}
    /\ probes' # probes =>
          /\ pc = "select" /\ idx = 0 /\ calls = <<>>
          /\ logFile = initial.logFile
    /\ encoder # "unset" => encoder' = encoder
    /\ calls' # calls =>
          /\ encoder # "unset"
          /\ Len(calls') = Len(calls) + 1
          /\ calls'[Len(calls')].encoder = encoder

C12_Inv ==
    /\ probes <= 1
    /\ idx >= 1 => (probes = 1 /\ encoder # "unset")
    /\ \A k \in 1..Len(calls) : calls[k].encoder = encoder

\* C12: the encoder probe runs at most once in a run, before any file is
\* taken up; once chosen the encoder identifier never changes, and every
\* encoder command of the run carries it.
C12_ProbeOnce ==
    /\ [][C12_Step]_vars
    /\ [](C12_Inv)

C12_Witness ==
    /\ pc = "done" /\ probes = 1
    /\ encoder = "libaom-av1"
    /\ Len(calls) = 2
    /\ calls[1].encoder = "libaom-av1" /\ calls[2].encoder = "libaom-av1"

\* ----------------------------------------------------- mirrored outputs
\* The relative path of an input file with its extension .mp4 replaced by
\* .mkv (paths are relative to the two roots, so the directory is the same;
\* the file named ".mp4" has the stem ".mp4" and no suffix for pathlib).
Mirrored(p) ==
    IF p.ext = "" THEN MkPath(p.dir, Stem(".mkv", <<>>), "")
    ELSE MkPath(p.dir, p.stem, ".mkv")

CallsFor(p) == { c \in 1..Len(calls) : calls[c].input = p }

\* C14: after a run with the hardware encoder that returns 0, the output
\* logged for every converted file has the extension .mp4 and lies in the
\* subdirectory of the output root named after the resolution ffprobe
\* reports, and the last argument of its encoder command ends with .mp4.
C14_Original ==
    (pc = "done" /\ exitCode = 0 /\ encoder = "av1_nvenc") =>
        \A k \in 1..Len(RunRows) :
            RunRows[k].status = "success" =>
                /\ RunRows[k].output.ext = ".mp4"
                /\ RunRows[k].output.dir = <<"1920x1080">>
                /\ \A c \in CallsFor(RunRows[k].input) :
                      calls[c].output.ext = ".mp4"

\* C15: a row of this run has no output path when the encoder was not
\* invoked for its file, and has the resolved output path, the one given to
\* the encoder, when it was, whatever the status.
C15_Original ==
    \A k \in 1..Len(RunRows) :
        IF CallsFor(RunRows[k].input) = {}
        THEN RunRows[k].output = NoPath
        ELSE \A c \in CallsFor(RunRows[k].input) :
                RunRows[k].output = calls[c].output

\* ------------------------------------------------------ quality range
C16_Step ==
    /\ settings' = settings
    /\ pc = "construct" =>
          IF 0 <= settings.quality /\ settings.quality <= 51
          THEN pc' = "collect" /\ raised' = ""
          ELSE pc' = "aborted" /\ raised' = "ValidationError"

C16_Inv ==
    /\ pc \notin {"construct", "aborted"} => settings.quality \in 0..51
    /\ raised = "ValidationError" =>
          /\ settings.quality \notin 0..51
          /\ pc = "aborted" /\ idx = 0 /\ files = <<>> /\ logFile = <<>>
    /\ \A c \in 1..Len(calls) : calls[c].quality = settings.quality

\* C16: ConverterSettings is constructed when the quality asked for is one
\* of 0..51 and construction fails with a validation error when it is
\* below 0 or above 51; run_conversion, and so the batch loop, is only ever
\* entered with a quality of 0..51.
C16_QualityRange ==
    /\ [][C16_Step]_vars
    /\ [](C16_Inv)

C16_Witness ==
    /\ pc = "done" /\ settings.quality = 51
    /\ Len(calls) = 1 /\ calls[1].quality = 51

\* ------------------------------------------------------ capacity check
C17_Step ==
    /\ pc = "capacity" =>
          /\ calls' = calls /\ srcFiles' = srcFiles /\ outFiles' = outFiles
          /\ IF usage.free < usage.required
             THEN /\ pc' = "append"
                  /\ entry' = LogEntry(files[idx], NoPath, "failed", "disk")
             ELSE pc' = "ffmpeg"
    /\ pc = "ffmpeg" =>
          /\ calls' = Append(calls, calls'[Len(calls')])
          /\ calls'[Len(calls')].input = files[idx]
          /\ calls'[Len(calls')].output = output_path

C17_Inv ==
    /\ (pc \in {"append", "register"} /\ entry.message = "disk") =>
          /\ entry.status = "failed"
          /\ CallsFor(entry.input_path) = {}
          /\ entry.input_path \in srcFiles
    /\ \A k \in 1..Len(RunRows) :
          RunRows[k].message = "disk" =>
              /\ RunRows[k].status = "failed"
              /\ CallsFor(RunRows[k].input) = {}
              /\ RunRows[k].input \in srcFiles

\* C17: when ensure_disk_capacity finds less free space than the size of
\* the input file, the file is failed, no encoder command is run for it and
\* its source stays; when the free space is the size or more, the check
\* passes and the next thing to happen is the encoder command for the file.
C17_Capacity ==
    /\ [][C17_Step]_vars
    /\ [](C17_Inv)

C17_Witness ==
    /\ pc = "done" /\ settings.delete_original
    /\ Len(RunRows) = 2 /\ Len(calls) = 1
    /\ RunRows[1].message = "disk" /\ RunRows[1].input \in srcFiles
    /\ RunRows[2].status = "success" /\ RunRows[2].input \notin srcFiles

\* --------------------------------------------------- one file at a time
\* The steps that may follow one another in run_conversion.
Follows ==
    { <<"collect", "ensure_out">>, <<"ensure_out", "select">>,
      <<"select", "loop">>,
      <<"loop", "resolve">>, <<"loop", "summary">>,
      <<"resolve", "usage">>, <<"resolve", "append">>,
      <<"usage", "capacity">>, <<"usage", "append">>,
      <<"capacity", "ffmpeg">>, <<"capacity", "append">>,
      <<"ffmpeg", "unlink">>, <<"ffmpeg", "append">>,
      <<"unlink", "append">>,
      <<"append", "register">>, <<"register", "loop">>,
      <<"summary", "done">> }

C18_Step ==
    /\ <<pc, pc'>> \in Follows \/ pc' = "aborted"
    /\ idx' = IF pc = "loop" /\ pc' = "resolve" THEN idx + 1 ELSE idx
    /\ calls' # calls =>
          /\ pc = "ffmpeg"
          /\ calls' = Append(calls, calls'[Len(calls')])
          /\ calls'[Len(calls')].input = files[idx]
    /\ srcFiles' # srcFiles =>
          (pc = "unlink" /\ srcFiles' = srcFiles \ {files[idx]})
    /\ logFile' # logFile =>
          (pc = "append" /\ logFile'[Len(logFile')].input = files[idx])
    /\ summary' # summary =>
          (pc = "register" /\ summary'.total = summary.total + 1)

C18_Inv ==
    /\ pc \in PerFileSteps =>
          /\ Len(RunRows) = idx - 1
          /\ summary.total = idx - 1
    /\ pc = "resolve" => \A c \in 1..Len(calls) : calls[c].input # files[idx]
    /\ \A i \in 1..Len(files) :
          /\ Cardinality(CallsFor(files[i])) <= 1
          /\ i > idx => CallsFor(files[i]) = {}
    /\ \A c, d \in 1..Len(calls) :
          c < d => \E i, j \in 1..idx :
                      i < j /\ calls[c].input = files[i] /\ calls[d].input = files[j]

\* C18: the steps of a file come in the order resolve, capacity check,
\* encoder, deletion, log append, counter; the next file is taken up only
\* when the row and the count of the one before are done; a file gets at
\* most one encoder command, and the commands follow the order of the files.
C18_Sequential ==
    /\ [][C18_Step]_vars
    /\ [](C18_Inv)

C18_Witness ==
    /\ pc = "done" /\ Len(files) = 2 /\ Len(calls) = 2
    /\ calls[1].input = files[1] /\ calls[2].input = files[2]
    /\ RunRows[1].status = "failed" /\ RunRows[1].message = "exit"
    /\ summary.total = 2

\* ------------------------------------------------- no output overwritten
C19_Step ==
    /\ (pc = "resolve" /\ pc' = "usage") => output_path' \notin outFiles
    /\ pc = "ffmpeg" =>
          /\ output_path \notin outFiles
          /\ calls'[Len(calls')].output = output_path
          /\ calls'[Len(calls')].overwrite
          /\ outFiles \subseteq outFiles'
          /\ outFiles' \subseteq outFiles \cup {output_path}
    /\ outFiles' # outFiles => pc = "ffmpeg"

C19_Inv ==
    /\ pc \in {"usage", "capacity", "ffmpeg"} => output_path \notin outFiles
    /\ initial.outFiles \subseteq outFiles
    /\ \A c \in 1..Len(calls) :
          /\ calls[c].overwrite
          /\ calls[c].output \notin initial.outFiles

\* C19: with skip_existing on or off, the output path of every encoder
\* command was free when it was resolved and is still free when the command
\* is run, so that the command, which always carries -y, writes over no
\* file that was in the output tree before the pipeline of its file began.
C19_NoOverwrite ==
    /\ [][C19_Step]_vars
    /\ [](C19_Inv)

C19_Witness ==
    /\ pc = "done" /\ ~settings.skip_existing
    /\ initial.outFiles # {} /\ Len(calls) = 2
    /\ Candidate(calls[1].input) \in initial.outFiles
    /\ calls[1].output \in outFiles \ initial.outFiles
    /\ calls[1].overwrite

\* ------------------------------------------------------------ second run
\* The rows the first run wrote, header apart.
FirstRows == SelectSeq(SubSeq(logFile, 1, logStart), IsRow)

\* This is the second run, with skip_existing on and delete_original off,
\* and in the first every file ended success with its output file created.
C20_Given ==
    /\ run = 2
    /\ settings.skip_existing /\ ~settings.delete_original
    /\ initial.previous.pc = "done"
    /\ Len(FirstRows) = Len(initial.previous.files)
    /\ \A k \in 1..Len(FirstRows) :
          /\ FirstRows[k].status = "success"
          /\ FirstRows[k].output \in initial.outFiles

C20_Outcome ==
    /\ pc = "done" /\ exitCode = 0
    /\ calls = <<>>
    /\ outFiles = initial.outFiles
    /\ files = initial.previous.files
    /\ Len(RunRows) = Len(files)
    /\ \A k \in 1..Len(RunRows) :
          RunRows[k].status = "skipped" /\ RunRows[k].input = files[k]
    /\ Len(logFile) = logStart + Len(files)
    /\ summary = [total |-> Len(files), success |-> 0, failed |-> 0,
                  skipped |-> Len(files)]

\* C20 as stated: such a second run, once over, has skipped every file, run
\* no encoder command, changed no output file, added one skipped row per
\* file and no header, and returned 0.
C20_Original == (C20_Given /\ Terminated) => C20_Outcome

\* C20, amended: such a second run runs no encoder command, changes no
\* output file and logs nothing but skipped rows, without a header; it ends
\* only by returning 0 with one row per file, or by an OSError raised out of
\* append_log_entry.
C20_Idempotent ==
    C20_Given =>
        /\ calls = <<>>
        /\ outFiles = initial.outFiles
        /\ pc \notin {"usage", "capacity", "ffmpeg", "unlink"}
        /\ \A k \in 1..Len(RunRows) :
              RunRows[k].status = "skipped" /\ RunRows[k].input = files[k]
        /\ \A k \in (logStart + 1)..Len(logFile) : logFile[k] # HeaderRow
        /\ pc = "done" => C20_Outcome
        /\ pc = "aborted" => (raised = "OSError" /\ idx >= 1 /\ entry.status = "skipped")

C20_Witness ==
    /\ C20_Given /\ C20_Outcome
    /\ Len(files) = 2 /\ Len(logFile) = 5
====
